---------------------------- MODULE Spec2Model ----------------------------
(***************************************************************************)
(* A model of the runtime optimisation layer of                            *)
(* src/Arbeitsdaten/V50_ULTIMATE_165/RAEL_OPTIMIZED_RUNTIME.py:            *)
(*   - kappa and AkashaCache.persistence_time (pure functions),            *)
(*   - AkashaCache (get / put / _evict_lowest_frequency),                  *)
(*   - EinsteinRosenBypass (check_bypass_condition / compute_skip_layers), *)
(*   - EfficiencyEngine, the kappa weights of KappaScaledAttention,        *)
(*   - AkashaCache.get / put stepped by two threads,                       *)
(*   - RAELOptimizedRuntime (__init__ / forward / get_full_stats).         *)
(*                                                                         *)
(* Python floats are modelled as exact rationals <<numerator, denominator>>*)
(* in lowest terms with a positive denominator; timestamps are integers.   *)
(* A Python dict is modelled as the sequence of its entries in insertion   *)
(* order (the iteration order of a dict).                                  *)
(***************************************************************************)
EXTENDS Integers, Sequences, FiniteSets, TLC

VARIABLES
    capacity,        \* AkashaCache.capacity
    tau_0,           \* AkashaCache.tau_0
    cache,           \* AkashaCache.cache, entries in dict order
    hits,            \* AkashaCache.hits
    misses,          \* AkashaCache.misses
    prev,            \* history: AkashaCache.cache before the last call
    last,            \* history: the last AkashaCache call and what it returned
    num_layers,      \* EinsteinRosenBypass.num_layers
    bypass_active,   \* EinsteinRosenBypass.bypass_active
    layers_skipped,  \* EinsteinRosenBypass.layers_skipped
    call,            \* history: the last EinsteinRosenBypass call and its result
    probe,           \* history: the last two evaluations of a pure function
    threads,         \* per thread: the AkashaCache call it is in and where
    rt,              \* RAELOptimizedRuntime: stats and the last forward pass
    twin             \* a second EinsteinRosenBypass of the same num_layers

vars == <<capacity, tau_0, cache, hits, misses, prev, last,
          num_layers, bypass_active, layers_skipped, call, probe, threads, rt, twin>>

cacheVars  == <<capacity, tau_0, cache, hits, misses, prev, last>>
bypassVars == <<num_layers, bypass_active, layers_skipped, call>>

(***************************************************************************)
(* Bounds of the model.                                                    *)
(***************************************************************************)
MaxCapacity == 2     \* capacities 1..MaxCapacity are explored
MaxGets     == 2     \* cap on hits + misses
MaxLayers   == 8     \* num_layers ranges over 0..MaxLayers

(***************************************************************************)
(* Exact rational arithmetic standing for Python's float arithmetic.       *)
(***************************************************************************)
None == "None"
\* the outcome of a float division by zero: not a number
ZeroDivisionError == <<0, 0>>

Abs(x) == IF x < 0 THEN -x ELSE x

RECURSIVE GCD(_, _)
GCD(a, b) == IF b = 0 THEN a ELSE GCD(b, a % b)

Rat(n, d) ==
    LET s == IF d < 0 THEN -1 ELSE 1
        g == GCD(Abs(n), Abs(d))
    IN  <<(s * n) \div g, (s * d) \div g>>

FromInt(n) == <<n, 1>>

RAdd(a, b) == Rat(a[1] * b[2] + b[1] * a[2], a[2] * b[2])
RSub(a, b) == Rat(a[1] * b[2] - b[1] * a[2], a[2] * b[2])
RMul(a, b) == Rat(a[1] * b[1], a[2] * b[2])
RDiv(a, b) == IF b[1] = 0 THEN ZeroDivisionError ELSE Rat(a[1] * b[2], a[2] * b[1])
RLess(a, b) == a[1] * b[2] < b[1] * a[2]
RLeq(a, b)  == a[1] * b[2] <= b[1] * a[2]
RMin(a, b)  == IF RLess(b, a) THEN b ELSE a
RMax(a, b)  == IF RLess(a, b) THEN b ELSE a

\* Python int(x): truncation toward zero
PyInt(r) == IF r[1] >= 0 THEN r[1] \div r[2] ELSE -((-r[1]) \div r[2])

(***************************************************************************)
(* Module constants.                                                       *)
(***************************************************************************)
F_QUELLE == 1440
G0 == <<8, 9>>
KappaFloor == <<1, 1000>>
MaxSkipRatio == <<9, 10>>

\* the clamp of x to [lo, hi], written min(max(x, lo), hi)
Clamp(x, lo, hi) == RMin(RMax(x, lo), hi)

\* mutant: kappa of the frequency clamped to [0, F_QUELLE]
kappa_clamped(f) ==
    RSub(FromInt(1), RDiv(Clamp(f, FromInt(0), FromInt(F_QUELLE)), FromInt(F_QUELLE)))

\* mutant: kappa relative to F_TOR = 720 instead of F_QUELLE
kappa_tor(f) == RSub(FromInt(1), RDiv(f, FromInt(720)))

(***************************************************************************)
(* kappa(f) = 1 - f / F_QUELLE                                             *)
(***************************************************************************)
kappa(f) == RSub(FromInt(1), RDiv(f, FromInt(F_QUELLE)))

\* mutant: the formula of the docstring, tau_0 / (1 - f/1440), with no floor
persistence_time_nofloor(tau, frequency) == RDiv(tau, kappa(frequency))

(***************************************************************************)
(* AkashaCache.persistence_time: tau_0 / k with k floored at 0.001         *)
(***************************************************************************)
persistence_time(tau, frequency) ==
    LET k0 == kappa(frequency)
        k  == IF RLess(k0, KappaFloor) THEN KappaFloor ELSE k0
    IN  RDiv(tau, k)

(***************************************************************************)
(* Python dict operations on the sequence of entries.                      *)
(***************************************************************************)
Entry(key, value, frequency, timestamp) ==
    [key |-> key, value |-> value, frequency |-> frequency, timestamp |-> timestamp]

KeysOf(c) == {c[i].key : i \in 1..Len(c)}

HasKey(c, key) == key \in KeysOf(c)

Lookup(c, key) == c[CHOOSE i \in 1..Len(c) : c[i].key = key]

\* del d[key]
dict_del(c, key) == SelectSeq(c, LAMBDA e : e.key # key)

\* d[key] = e : an existing key keeps its place, a new key goes last
dict_set(c, key, e) ==
    IF HasKey(c, key)
    THEN [i \in 1..Len(c) |-> IF c[i].key = key THEN e ELSE c[i]]
    ELSE Append(c, e)

\* mutant: the first key of the dict, whatever its frequency
min_key_first(c) == c[1].key

\* mutant: ties of the minimal frequency broken by the oldest timestamp
min_key_oldest(c) ==
    LET m == {i \in 1..Len(c) :
                 \A j \in 1..Len(c) : ~RLess(c[j].frequency, c[i].frequency)}
        i == CHOOSE i \in m :
                 /\ \A j \in m : c[i].timestamp <= c[j].timestamp
                 /\ \A j \in m : j < i => c[i].timestamp < c[j].timestamp
    IN  c[i].key

\* min(d.keys(), key=lambda k: d[k][1]) : the first key of minimal frequency
min_key(c) ==
    LET i == CHOOSE i \in 1..Len(c) :
                 /\ \A j \in 1..Len(c) : ~RLess(c[j].frequency, c[i].frequency)
                 /\ \A j \in 1..(i - 1) : RLess(c[i].frequency, c[j].frequency)
    IN  c[i].key

(***************************************************************************)
(* AkashaCache                                                             *)
(***************************************************************************)
\* mutant: an entry expires already when its age equals its persistence time
should_evict_geq(c, tau, key, current_time) ==
    IF ~HasKey(c, key)
    THEN TRUE
    ELSE LET e == Lookup(c, key)
             t == persistence_time(tau, e.frequency)
             age == current_time - e.timestamp
         IN  RLeq(t, FromInt(age))

should_evict(c, tau, key, current_time) ==
    IF ~HasKey(c, key)
    THEN TRUE
    ELSE LET e == Lookup(c, key)
             t == persistence_time(tau, e.frequency)
             age == current_time - e.timestamp
         IN  RLess(t, FromInt(age))

evict_lowest_frequency(c) ==
    IF Len(c) = 0 THEN c ELSE dict_del(c, min_key(c))

\* mutant: put evicts only once the dict is over capacity
put_cache_late(c, cap, key, value, frequency, current_time) ==
    LET c1 == IF Len(c) > cap THEN evict_lowest_frequency(c) ELSE c
    IN  dict_set(c1, key, Entry(key, value, frequency, current_time))

\* mutant: put inserts first and evicts afterwards, once over capacity
put_cache_evict_after(c, cap, key, value, frequency, current_time) ==
    LET c1 == dict_set(c, key, Entry(key, value, frequency, current_time))
    IN  IF Len(c1) > cap THEN evict_lowest_frequency(c1) ELSE c1

\* the dict after put
put_cache(c, cap, key, value, frequency, current_time) ==
    LET c1 == IF Len(c) >= cap THEN evict_lowest_frequency(c) ELSE c
    IN  dict_set(c1, key, Entry(key, value, frequency, current_time))

\* mutant: a hit refreshes the timestamp of the entry (an LRU touch)
get_touch(key, current_time) ==
    /\ hits + misses < MaxGets
    /\ prev' = cache
    /\ IF ~HasKey(cache, key)
       THEN /\ misses' = misses + 1
            /\ UNCHANGED <<cache, hits>>
            /\ last' = [op |-> "get", key |-> key, current_time |-> current_time,
                        ret |-> None]
       ELSE IF should_evict(cache, tau_0, key, current_time)
       THEN /\ cache' = dict_del(cache, key)
            /\ misses' = misses + 1
            /\ UNCHANGED hits
            /\ last' = [op |-> "get", key |-> key, current_time |-> current_time,
                        ret |-> None]
       ELSE /\ hits' = hits + 1
            /\ cache' = dict_set(cache, key,
                                 [Lookup(cache, key) EXCEPT !.timestamp = current_time])
            /\ UNCHANGED misses
            /\ last' = [op |-> "get", key |-> key, current_time |-> current_time,
                        ret |-> Lookup(cache, key).value]
    /\ UNCHANGED <<capacity, tau_0>>

get(key, current_time) ==
    /\ hits + misses < MaxGets
    /\ prev' = cache
    /\ IF ~HasKey(cache, key)
       THEN /\ misses' = misses + 1
            /\ UNCHANGED <<cache, hits>>
            /\ last' = [op |-> "get", key |-> key, current_time |-> current_time,
                        ret |-> None]
       ELSE IF should_evict(cache, tau_0, key, current_time)
       THEN /\ cache' = dict_del(cache, key)
            /\ misses' = misses + 1
            /\ UNCHANGED hits
            /\ last' = [op |-> "get", key |-> key, current_time |-> current_time,
                        ret |-> None]
       ELSE /\ hits' = hits + 1
            /\ UNCHANGED <<cache, misses>>
            /\ last' = [op |-> "get", key |-> key, current_time |-> current_time,
                        ret |-> Lookup(cache, key).value]
    /\ UNCHANGED <<capacity, tau_0>>

\* the key that put deletes before it inserts, None when it deletes nothing
evicted_key(c, cap) ==
    IF Len(c) >= cap /\ Len(c) > 0 THEN min_key(c) ELSE None

\* mutant: a put that had to evict counts as a miss
put_counts(key, value, frequency, current_time) ==
    /\ prev' = cache
    /\ cache' = put_cache(cache, capacity, key, value, frequency, current_time)
    /\ last' = [op |-> "put", key |-> key, value |-> value, frequency |-> frequency,
                current_time |-> current_time, ret |-> None,
                evicted |-> evicted_key(cache, capacity)]
    /\ misses' = IF evicted_key(cache, capacity) # None THEN misses + 1 ELSE misses
    /\ UNCHANGED <<capacity, tau_0, hits>>

put(key, value, frequency, current_time) ==
    /\ prev' = cache
    /\ cache' = put_cache(cache, capacity, key, value, frequency, current_time)
    /\ last' = [op |-> "put", key |-> key, value |-> value, frequency |-> frequency,
                current_time |-> current_time, ret |-> None,
                evicted |-> evicted_key(cache, capacity)]
    /\ UNCHANGED <<capacity, tau_0, hits, misses>>

(***************************************************************************)
(* Calls of the cache with arguments drawn from given sets.                *)
(***************************************************************************)
NoCall == [op |-> "none"]

BypassIdle ==
    /\ num_layers = 0
    /\ bypass_active = FALSE
    /\ layers_skipped = 0
    /\ call = [op |-> "none", checked |-> <<>>]

\* no pure function evaluated, no thread started, no runtime constructed
ProbeIdle ==
    probe = <<>> /\ threads = <<>> /\ rt = [op |-> "none"] /\ twin = [op |-> "none"]

\* AkashaCache.__init__ with capacity cap and the default tau_0 = 1.0
CacheInit(caps) ==
    /\ capacity \in caps
    /\ tau_0 = FromInt(1)
    /\ cache = <<>>
    /\ hits = 0
    /\ misses = 0
    /\ prev = <<>>
    /\ last = NoCall

GetOver(K, T) ==
    /\ \E key \in K, current_time \in T : get(key, current_time)
    /\ UNCHANGED <<bypassVars, probe, threads, rt, twin>>

PutOver(K, V, F, T) ==
    /\ \E key \in K, value \in V, frequency \in F, current_time \in T :
           put(key, value, frequency, current_time)
    /\ UNCHANGED <<bypassVars, probe, threads, rt, twin>>

\* a monotonic clock: the time of the last call
Clock == IF last.op = "none" THEN 0 ELSE last.current_time

(***************************************************************************)
(* Spec: capacity and eviction; any keys, frequencies and timestamps.      *)
(***************************************************************************)
Keys   == {"A", "B", "C"}
Values == {"v1"}
Freqs  == {FromInt(5), FromInt(7), FromInt(10)}
Times  == {0, 2}

Init == CacheInit(1..MaxCapacity) /\ BypassIdle /\ ProbeIdle

Get == GetOver(Keys, Times)

Put == PutOver(Keys, Values, Freqs, Times)

Next == Get \/ Put

Spec == Init /\ [][Next]_vars

(***************************************************************************)
(* SpecTTL: expiry; lifetimes 2 (f = 720) and 1000 (f = 1440).             *)
(***************************************************************************)
KeysTTL   == {"A", "B"}
ValuesTTL == {"v1", "v2"}
FreqsTTL  == {FromInt(720), FromInt(F_QUELLE)}
TimesTTL  == {0, 1, 1000, 1002}

GetTTL == GetOver(KeysTTL, {t \in TimesTTL : t >= Clock})

PutTTL == PutOver(KeysTTL, ValuesTTL, FreqsTTL, {t \in TimesTTL : t >= Clock})

InitTTL == CacheInit({MaxCapacity}) /\ BypassIdle /\ ProbeIdle

NextTTL == GetTTL \/ PutTTL

SpecTTL == InitTTL /\ [][NextTTL]_vars

(***************************************************************************)
(* SpecTie: ties of the lowest frequency under a monotonic clock.          *)
(***************************************************************************)
KeysTie  == {"A", "B", "C", "D"}
FreqsTie == {FromInt(5), FromInt(10)}
TimesTie == {0, 1, 2}

InitTie == CacheInit({MaxCapacity + 1}) /\ BypassIdle /\ ProbeIdle

PutTie == PutOver(KeysTie, Values, FreqsTie, {t \in TimesTie : t >= Clock})

NextTie == PutTie

SpecTie == InitTie /\ [][NextTie]_vars

(***************************************************************************)
(* EinsteinRosenBypass                                                     *)
(***************************************************************************)
\* the threshold of the spec's scenario, bypass_threshold = 0.6
ConfiguredThreshold == <<3, 5>>

TRIGGER_THRESHOLD == G0

\* range(a, b)
py_range(a, b) == [i \in 1..(b - a) |-> a + i - 1]

\* mutant: the ratio clamped to [0, 1], without the 90 % cap
skip_ratio_uncapped(signature_88) ==
    Clamp(RDiv(RSub(signature_88, TRIGGER_THRESHOLD),
               RSub(FromInt(1), TRIGGER_THRESHOLD)),
          FromInt(0), FromInt(1))

skip_ratio(signature_88) ==
    Clamp(RDiv(RSub(signature_88, TRIGGER_THRESHOLD),
               RSub(FromInt(1), TRIGGER_THRESHOLD)),
          FromInt(0), MaxSkipRatio)

\* mutant: every layer counts as skippable
total_skippable_all(n) == n

total_skippable(n) == n - 2

\* what compute_skip_layers returns while bypass_active holds
skip_layers_of(n, signature_88) ==
    LET num_skip == PyInt(RMul(FromInt(total_skippable(n)), skip_ratio(signature_88)))
    IN  py_range(1, 1 + num_skip)

\* EinsteinRosenBypass.__init__
BypassInit(layers) ==
    /\ num_layers \in layers
    /\ bypass_active = FALSE
    /\ layers_skipped = 0
    /\ call = [op |-> "none", checked |-> <<>>]

check_bypass_condition(signature_88) ==
    /\ bypass_active' = RLess(TRIGGER_THRESHOLD, signature_88)
    /\ call' = [op |-> "check_bypass_condition", signature_88 |-> signature_88,
                ret |-> bypass_active', checked |-> <<signature_88>>]
    /\ UNCHANGED <<num_layers, layers_skipped>>

compute_skip_layers(signature_88) ==
    /\ IF ~bypass_active
       THEN /\ call' = [op |-> "compute_skip_layers", signature_88 |-> signature_88,
                        ret |-> <<>>, checked |-> call.checked]
            /\ UNCHANGED layers_skipped
       ELSE LET skip_layers == skip_layers_of(num_layers, signature_88) IN
            /\ layers_skipped' = Len(skip_layers)
            /\ call' = [op |-> "compute_skip_layers", signature_88 |-> signature_88,
                        ret |-> skip_layers, checked |-> call.checked]
    /\ UNCHANGED <<num_layers, bypass_active>>

(***************************************************************************)
(* SpecBypass: a controller of 0..MaxLayers layers, called with any        *)
(* signatures in any order.                                                *)
(***************************************************************************)
Signatures ==
    {<<-1, 2>>, <<0, 1>>, <<3, 5>>, <<4, 5>>, <<8, 9>>, <<9, 10>>, <<17, 18>>,
     <<19, 20>>, <<24, 25>>, <<99, 100>>, <<1, 1>>, <<3, 2>>}

CacheIdle == CacheInit({1})

InitBypass == BypassInit(0..MaxLayers) /\ CacheIdle /\ ProbeIdle

CheckBypassCondition ==
    /\ \E signature_88 \in Signatures : check_bypass_condition(signature_88)
    /\ UNCHANGED <<cacheVars, probe, threads, rt, twin>>

ComputeSkipLayers ==
    /\ \E signature_88 \in Signatures : compute_skip_layers(signature_88)
    /\ UNCHANGED <<cacheVars, probe, threads, rt, twin>>

NextBypass == CheckBypassCondition \/ ComputeSkipLayers

SpecBypass == InitBypass /\ [][NextBypass]_vars

(***************************************************************************)
(* SpecKappa: kappa and persistence_time applied to frequencies inside and *)
(* outside [0, F_QUELLE]; probe keeps the last two evaluations.            *)
(***************************************************************************)
ProbeFreqs ==
    {FromInt(-1440), FromInt(-5), FromInt(0), FromInt(5), FromInt(7), FromInt(10),
     FromInt(144), FromInt(432), FromInt(720), FromInt(1080), FromInt(1438),
     <<2877, 2>>, <<35964, 25>>, FromInt(1439), FromInt(F_QUELLE),
     FromInt(1441), FromInt(2880)}

ProbeTaus == {FromInt(1), FromInt(2), <<1, 2>>}

InitKappa == ProbeIdle /\ CacheIdle /\ BypassIdle

Evaluate ==
    /\ \E f \in ProbeFreqs, tau \in ProbeTaus :
           probe' = <<[frequency |-> f, tau |-> tau, kappa |-> kappa(f),
                       persistence_time |-> persistence_time(tau, f)]>>
                    \o SubSeq(probe, 1, IF Len(probe) = 0 THEN 0 ELSE 1)
    /\ UNCHANGED <<cacheVars, bypassVars, threads, rt, twin>>

NextKappa == Evaluate

SpecKappa == InitKappa /\ [][NextKappa]_vars

(***************************************************************************)
(* Claims about AkashaCache.                                               *)
(***************************************************************************)
IsPut == last.op = "put"
IsGet == last.op = "get"

\* the last call was a put of a key that was absent, into a full dict
PutNewIntoFull == IsPut /\ Len(prev) = capacity /\ ~HasKey(prev, last.key)

\* positions of prev whose key the dict no longer holds
Removed == {i \in 1..Len(prev) : ~HasKey(cache, prev[i].key)}

\* positions of c that hold the lowest frequency
Lowest(c) == {i \in 1..Len(c) : \A j \in 1..Len(c) : RLeq(c[i].frequency, c[j].frequency)}

IndexOfKey(c, key) == CHOOSE i \in 1..Len(c) : c[i].key = key

\* C1: for every capacity >= 1 the dict holds at most capacity entries (with
\* distinct keys) after every put and get.
C1_CapacityInvariant ==
    /\ capacity >= 1
    /\ Len(cache) <= capacity
    /\ Cardinality(KeysOf(cache)) = Len(cache)

C1_Witness == PutNewIntoFull /\ Len(cache) = capacity

\* C2: a put of a new key into a full dict removes exactly one entry, one whose
\* frequency is minimal among the entries held before the call; with capacity 2
\* holding A (f = 5) and B (f = 10), put of C (f = 7) leaves exactly {B, C}.
C2_Example ==
    /\ capacity = 2
    /\ Len(prev) = 2
    /\ \E i, j \in 1..2 :
           /\ prev[i].key = "A" /\ prev[i].frequency = FromInt(5)
           /\ prev[j].key = "B" /\ prev[j].frequency = FromInt(10)
    /\ IsPut /\ last.key = "C" /\ last.frequency = FromInt(7)

C2_EvictsLowestFrequency ==
    /\ PutNewIntoFull =>
           /\ Cardinality(Removed) = 1
           /\ Removed \subseteq Lowest(prev)
    /\ C2_Example => KeysOf(cache) = {"B", "C"}

C2_Witness == C2_Example /\ KeysOf(cache) = {"B", "C"}

\* the last put deleted an entry while several entries shared the lowest frequency
EvictedOnTie ==
    /\ IsPut
    /\ last.evicted # None
    /\ Cardinality(Lowest(prev)) >= 2

C4_GetExpiry ==
    IsGet =>
        IF ~HasKey(prev, last.key)
        THEN last.ret = None
        ELSE LET e == Lookup(prev, last.key)
                 age == last.current_time - e.timestamp
                 expired == RLess(persistence_time(tau_0, e.frequency), FromInt(age))
             IN  /\ expired <=> last.ret = None
                 /\ ~expired => last.ret = e.value
                 /\ (tau_0 = FromInt(1) /\ e.frequency = FromInt(F_QUELLE)) =>
                        /\ age \in {999, 1000} => last.ret = e.value
                        /\ age = 1001 => last.ret = None

C4_Witness ==
    /\ IsGet
    /\ HasKey(prev, last.key)
    /\ Lookup(prev, last.key).frequency = FromInt(F_QUELLE)
    /\ last.current_time - Lookup(prev, last.key).timestamp = 1001
    /\ last.ret = None
    /\ ~HasKey(cache, last.key)

(***************************************************************************)
(* Claims about kappa and persistence_time.                                *)
(***************************************************************************)
Probes == {probe[i] : i \in 1..Len(probe)}

InRange(f) == RLeq(FromInt(0), f) /\ RLeq(f, FromInt(F_QUELLE))

\* kappa(f) = KappaNum(f) / KappaDen(f), in integers
KappaNum(f) == F_QUELLE * f[2] - f[1]
KappaDen(f) == F_QUELLE * f[2]

C6_KappaRange ==
    /\ \A r \in Probes :
           /\ InRange(r.frequency) =>
                  RLeq(FromInt(0), r.kappa) /\ RLeq(r.kappa, FromInt(1))
           /\ r.frequency = FromInt(0) => r.kappa = FromInt(1)
           /\ r.frequency = FromInt(F_QUELLE) => r.kappa = FromInt(0)
    /\ \A r1, r2 \in Probes :
           (/\ InRange(r1.frequency) /\ InRange(r2.frequency)
            /\ RLess(r1.frequency, r2.frequency))
               => RLess(r2.kappa, r1.kappa)

C6_Witness ==
    /\ Len(probe) = 2
    /\ probe[1].frequency = FromInt(F_QUELLE) /\ probe[1].kappa = FromInt(0)
    /\ probe[2].frequency = FromInt(0) /\ probe[2].kappa = FromInt(1)

\* C7 (as claimed): kappa clamps its input, kappa(f) = kappa(min(max(f, 0),
\* F_QUELLE)) for every f, and so kappa(f) is in [0, 1].
C7_KappaClamps ==
    \A r \in Probes :
        /\ r.kappa = kappa(Clamp(r.frequency, FromInt(0), FromInt(F_QUELLE)))
        /\ RLeq(FromInt(0), r.kappa) /\ RLeq(r.kappa, FromInt(1))

\* C7 (amended): kappa does not clamp; kappa(f) = 1 - f / F_QUELLE for every
\* f, which is above 1 for f < 0 and below 0 for f > F_QUELLE, so kappa(f) is
\* in [0, 1] exactly when f is in [0, F_QUELLE].
C7_KappaLinear ==
    \A r \in Probes :
        /\ r.kappa[1] * KappaDen(r.frequency) = KappaNum(r.frequency) * r.kappa[2]
        /\ RLess(r.frequency, FromInt(0)) => RLess(FromInt(1), r.kappa)
        /\ RLess(FromInt(F_QUELLE), r.frequency) => RLess(r.kappa, FromInt(0))
        /\ InRange(r.frequency) <=>
               (RLeq(FromInt(0), r.kappa) /\ RLeq(r.kappa, FromInt(1)))

C7_Witness ==
    /\ Len(probe) = 2
    /\ RLess(FromInt(F_QUELLE), probe[1].frequency) /\ RLess(probe[1].kappa, FromInt(0))
    /\ RLess(probe[2].frequency, FromInt(0)) /\ RLess(FromInt(1), probe[2].kappa)

(***************************************************************************)
(* Claims about EinsteinRosenBypass.                                       *)
(***************************************************************************)
\* the last call was compute_skip_layers(S), made after check_bypass_condition(S)
Decided ==
    /\ call.op = "compute_skip_layers"
    /\ call.checked = <<call.signature_88>>

InUnit(x) == RLeq(FromInt(0), x) /\ RLeq(x, FromInt(1))

IsRange1(q, k) == Len(q) = k /\ \A i \in 1..k : q[i] = i

\* floor(clamp((S - t) / (1 - t), 0, 0.9) * (n - 2)) for n >= 2, in integers
SkipCount(n, S, t) ==
    LET a == S[1] * t[2] - t[1] * S[2]          \* (S - t)     = a / (S[2] * t[2])
        b == (t[2] - t[1]) * S[2]               \* (1 - t)     = b / (S[2] * t[2])
    IN  IF a <= 0 THEN 0
        ELSE IF 10 * a >= 9 * b THEN (9 * (n - 2)) \div 10
        ELSE (a * (n - 2)) \div b

\* C8: for S in [0, 1] and num_layers >= 3, the list compute_skip_layers(S)
\* returns after check_bypass_condition(S) has between 0 and
\* floor(0.9 * (num_layers - 2)) elements and holds neither layer 0 nor layer
\* num_layers - 1.
C8_BypassBounds ==
    (Decided /\ InUnit(call.signature_88) /\ num_layers >= 3) =>
        /\ Len(call.ret) >= 0
        /\ Len(call.ret) <= (9 * (num_layers - 2)) \div 10
        /\ \A i \in 1..Len(call.ret) : call.ret[i] \notin {0, num_layers - 1}

\* the bound is attained with at least one layer skipped
C8_Witness ==
    /\ Decided /\ InUnit(call.signature_88) /\ num_layers >= 3
    /\ Len(call.ret) = (9 * (num_layers - 2)) \div 10
    /\ Len(call.ret) >= 1

\* C9 (as claimed): with the threshold configured as t = 0.6 the decision is
\* skip_layers = 1..k, k = floor(clamp((S - t) / (1 - t), 0, 0.9) * (n - 2));
\* n = 8 and S = 0.8 give {1, 2, 3}.
C9_ConfiguredThreshold ==
    (Decided /\ num_layers >= 3) =>
        /\ IsRange1(call.ret, SkipCount(num_layers, call.signature_88, ConfiguredThreshold))
        /\ (num_layers = 8 /\ call.signature_88 = <<4, 5>>) => call.ret = <<1, 2, 3>>

\* C9 (amended): the threshold is the constant 8/9; for n >= 3 the decision is
\* skip_layers = 1..k, a block starting at layer 1, with
\* k = floor(clamp((S - 8/9) / (1/9), 0, 0.9) * (n - 2)); n = 8 and S = 0.8
\* give the empty list, n = 8 and S = 0.95 give {1, 2, 3}.
C9_FixedThreshold ==
    (Decided /\ num_layers >= 3) =>
        /\ IsRange1(call.ret, SkipCount(num_layers, call.signature_88, <<8, 9>>))
        /\ (num_layers = 8 /\ call.signature_88 = <<4, 5>>) => call.ret = <<>>
        /\ (num_layers = 8 /\ call.signature_88 = <<19, 20>>) => call.ret = <<1, 2, 3>>

C9_Witness ==
    /\ Decided
    /\ num_layers = 8
    /\ call.signature_88 = <<19, 20>>
    /\ call.ret = <<1, 2, 3>>
    /\ layers_skipped = 3

\* C10: for num_layers < 3 and every S, compute_skip_layers returns the empty
\* list and layers_skipped stays 0.
C10_ShallowStack ==
    num_layers < 3 =>
        /\ layers_skipped = 0
        /\ call.op = "compute_skip_layers" => call.ret = <<>>

\* a controller of no layers at all, open at S = 1, skips nothing
C10_Witness ==
    /\ num_layers = 0
    /\ bypass_active
    /\ Decided
    /\ call.signature_88 = FromInt(1)
    /\ call.ret = <<>>
    /\ layers_skipped = 0

(***************************************************************************)
(* EfficiencyEngine.  E = clarity ** (5/3) is irrational in general: a     *)
(* real a + b * r^(1/3), with rationals a, b >= 0 and r >= 0, is kept      *)
(* exactly as <<a, b, r>> and compared with rationals through cubes.       *)
(***************************************************************************)
G1 == <<5, 9>>
G2 == <<3, 9>>
G1_DIV_G2 == RDiv(G1, G2)
EXPONENT == G1_DIV_G2

RECURSIVE RPow(_, _)
RPow(x, n) == IF n = 0 THEN FromInt(1) ELSE RMul(x, RPow(x, n - 1))

\* x ** e for x >= 0 and an exponent e = p/3: the cube root of x^p
PyPow(x, e) == <<FromInt(0), FromInt(1), RPow(x, e[1])>>

\* a + b * r^(1/3) > q
RootGreater(v, q) ==
    LET d == RSub(q, v[1])
    IN  IF RLess(d, FromInt(0)) THEN TRUE
        ELSE RLess(RPow(d, 3), RMul(RPow(v[2], 3), v[3]))

\* a + b * r^(1/3) < q
RootLess(v, q) ==
    LET d == RSub(q, v[1])
    IN  IF RLeq(d, FromInt(0)) THEN FALSE
        ELSE RLess(RMul(RPow(v[2], 3), v[3]), RPow(d, 3))

RootEq(v, q) == ~RootGreater(v, q) /\ ~RootLess(v, q)

\* EfficiencyEngine.compute_efficiency
compute_efficiency(clarity) ==
    IF RLeq(clarity, FromInt(0))
    THEN <<FromInt(0), FromInt(1), FromInt(0)>>
    ELSE PyPow(clarity, EXPONENT)

\* mutant: the tiers cut on clarity itself instead of E
adaptive_precision_linear(clarity) ==
    IF RLess(<<4, 5>>, clarity) THEN "fp16"
    ELSE IF RLess(<<1, 2>>, clarity) THEN "bf16"
    ELSE "fp32"

\* EfficiencyEngine.adaptive_precision
adaptive_precision(clarity) ==
    LET E == compute_efficiency(clarity)
    IN  IF RootGreater(E, <<4, 5>>) THEN "fp16"
        ELSE IF RootGreater(E, <<1, 2>>) THEN "bf16"
        ELSE "fp32"

\* EfficiencyEngine.throughput_multiplier: 1.0 + 2.0 * E
throughput_multiplier(clarity) ==
    LET E == compute_efficiency(clarity)
    IN  <<RAdd(FromInt(1), RMul(FromInt(2), E[1])), RMul(FromInt(2), E[2]), E[3]>>

(***************************************************************************)
(* SpecPrecision: the precision selector applied to clarities inside and   *)
(* outside [0, 1]; probe keeps the last two evaluations.                   *)
(***************************************************************************)
MaxClarity == 24     \* clarities are k/20 for k in -4..MaxClarity

Clarities == {Rat(k, 20) : k \in -4..MaxClarity}

InitPrecision == ProbeIdle /\ CacheIdle /\ BypassIdle

SelectPrecision ==
    /\ \E clarity \in Clarities :
           probe' = <<[clarity |-> clarity,
                       efficiency |-> compute_efficiency(clarity),
                       precision |-> adaptive_precision(clarity),
                       multiplier |-> throughput_multiplier(clarity)]>>
                    \o SubSeq(probe, 1, IF Len(probe) = 0 THEN 0 ELSE 1)
    /\ UNCHANGED <<cacheVars, bypassVars, threads, rt, twin>>

NextPrecision == SelectPrecision

SpecPrecision == InitPrecision /\ [][NextPrecision]_vars

(***************************************************************************)
(* Claims about the precision selector.                                    *)
(***************************************************************************)
InUnitClarity(c) == RLeq(FromInt(0), c) /\ RLeq(c, FromInt(1))

\* E > q for E = clarity^(5/3), clarity >= 0, q >= 0: clarity^5 > q^3
EGreater(clarity, q) == RLess(RPow(q, 3), RPow(clarity, 5))

\* the tiers ordered from Full to Low precision
TierRank(p) == CASE p = "fp32" -> 0 [] p = "bf16" -> 1 [] p = "fp16" -> 2

C12_ClampsClarity ==
    \A r \in Probes :
        /\ RLess(r.clarity, FromInt(0)) =>
               /\ r.precision = adaptive_precision(FromInt(0))
               /\ RootEq(r.multiplier, FromInt(1))
        /\ RLess(FromInt(1), r.clarity) =>
               /\ r.precision = adaptive_precision(FromInt(1))
               /\ RootEq(r.multiplier, FromInt(3))
        /\ ~RootLess(r.multiplier, FromInt(1))
        /\ ~RootGreater(r.multiplier, FromInt(3))

(***************************************************************************)
(* KappaScaledAttention.forward, steps 2 and 7: the raw score of a key     *)
(* token is multiplied by 1 - kappa of the token's relevance frequency.    *)
(***************************************************************************)
\* kappa_values = 1.0 - relevance_freq / F_QUELLE
kappa_values(relevance_freq) == RSub(FromInt(1), RDiv(relevance_freq, FromInt(F_QUELLE)))

\* kappa_weights = 1.0 - kappa_values
kappa_weights(relevance_freq) == RSub(FromInt(1), kappa_values(relevance_freq))

\* scores = scores * kappa_weights
scaled_score(score, relevance_freq) == RMul(score, kappa_weights(relevance_freq))

(***************************************************************************)
(* SpecAttention: raw scores of either sign scaled for relevance           *)
(* frequencies in [0, F_QUELLE]; probe keeps the last two evaluations.     *)
(***************************************************************************)
RawScores == {FromInt(-2), FromInt(-1), <<-1, 2>>, FromInt(0), <<1, 2>>,
              FromInt(1), FromInt(2)}

RelevanceFreqs == {FromInt(0), FromInt(144), FromInt(720), <<2877, 2>>,
                   FromInt(F_QUELLE)}

InitAttention == ProbeIdle /\ CacheIdle /\ BypassIdle

ScaleScore ==
    /\ \E score \in RawScores, f \in RelevanceFreqs :
           probe' = <<[score |-> score, frequency |-> f,
                       kappa |-> kappa_values(f),
                       scaled |-> scaled_score(score, f)]>>
                    \o SubSeq(probe, 1, IF Len(probe) = 0 THEN 0 ELSE 1)
    /\ UNCHANGED <<cacheVars, bypassVars, threads, rt, twin>>

NextAttention == ScaleScore

SpecAttention == InitAttention /\ [][NextAttention]_vars

\* C18: for two key tokens with relevance frequencies f1 < f2 and the same raw
\* score s of any sign, the scaled score of the f2 token is at least that of the
\* f1 token.
C18_ScalingMonotone ==
    \A r1, r2 \in Probes :
        (r1.score = r2.score /\ RLess(r1.frequency, r2.frequency)) =>
            RLeq(r1.scaled, r2.scaled)

(***************************************************************************)
(* AkashaCache.get and put stepped by threads.  No method of AkashaCache   *)
(* takes a lock, so a thread switch can fall between any two statements;   *)
(* every statement is one step here (coarser than bytecodes, so each run   *)
(* of the model is a run of the code).  A thread's pc names the line of    *)
(* the statement it executes next.                                         *)
(***************************************************************************)
MaxCalls == 2     \* calls a thread may start

\* a thread that is not inside a call
Outside(th) == th.pc \in {"idle", "returned", "raised", "cancelled"}

IdleThread ==
    [pc |-> "idle", op |-> "none", key |-> None, value |-> None,
     frequency |-> FromInt(0), current_time |-> 0, min_key |-> None,
     ret |-> None, calls |-> 0, before |-> <<>>]

\* the thread moves to line pc
Goto(t, pc) == threads' = [threads EXCEPT ![t].pc = pc]

\* the call returns ret
Return(t, ret) == threads' = [threads EXCEPT ![t].pc = "returned", ![t].ret = ret]

\* the call ends in an exception
Raise(t, exc) == threads' = [threads EXCEPT ![t].pc = "raised", ![t].ret = exc]

\* line 252: put is entered
StartPut(t, key, value, frequency, current_time) ==
    /\ Outside(threads[t])
    /\ threads[t].calls < MaxCalls
    /\ threads' = [threads EXCEPT ![t] =
           [pc |-> "put_259", op |-> "put", key |-> key, value |-> value,
            frequency |-> frequency, current_time |-> current_time,
            min_key |-> None, ret |-> None, calls |-> @.calls + 1,
            before |-> cache]]
    /\ UNCHANGED <<cache, hits, misses>>

\* line 259: if len(self.cache) >= self.capacity
PutCheck(t) ==
    /\ threads[t].pc = "put_259"
    /\ Goto(t, IF Len(cache) >= capacity THEN "evict_266" ELSE "put_262")
    /\ UNCHANGED <<cache, hits, misses>>

\* line 266: if not self.cache: return
EvictEmpty(t) ==
    /\ threads[t].pc = "evict_266"
    /\ Goto(t, IF cache = <<>> THEN "put_262" ELSE "evict_269")
    /\ UNCHANGED <<cache, hits, misses>>

\* line 269: min_key = min(self.cache.keys(), ...); min of nothing raises
EvictMin(t) ==
    /\ threads[t].pc = "evict_269"
    /\ IF cache = <<>>
       THEN Raise(t, "ValueError")
       ELSE threads' = [threads EXCEPT ![t].pc = "evict_270",
                                       ![t].min_key = min_key(cache)]
    /\ UNCHANGED <<cache, hits, misses>>

\* line 270: del self.cache[min_key]
EvictDel(t) ==
    /\ threads[t].pc = "evict_270"
    /\ IF HasKey(cache, threads[t].min_key)
       THEN /\ cache' = dict_del(cache, threads[t].min_key)
            /\ Goto(t, "put_262")
       ELSE /\ Raise(t, "KeyError")
            /\ UNCHANGED cache
    /\ UNCHANGED <<hits, misses>>

\* line 262: self.cache[key] = (value, frequency, current_time)
PutInsert(t) ==
    /\ threads[t].pc = "put_262"
    /\ cache' = dict_set(cache, threads[t].key,
                         Entry(threads[t].key, threads[t].value,
                               threads[t].frequency, threads[t].current_time))
    /\ Return(t, None)
    /\ UNCHANGED <<hits, misses>>

\* line 238: get is entered
StartGet(t, key, current_time) ==
    /\ Outside(threads[t])
    /\ threads[t].calls < MaxCalls
    /\ threads' = [threads EXCEPT ![t] =
           [pc |-> "get_240", op |-> "get", key |-> key, value |-> None,
            frequency |-> FromInt(0), current_time |-> current_time,
            min_key |-> None, ret |-> None, calls |-> @.calls + 1,
            before |-> cache]]
    /\ UNCHANGED <<cache, hits, misses>>

\* lines 240-242: if key not in self.cache: self.misses += 1; return None
GetMember(t) ==
    /\ threads[t].pc = "get_240"
    /\ IF ~HasKey(cache, threads[t].key)
       THEN /\ misses' = misses + 1
            /\ Return(t, None)
       ELSE /\ Goto(t, "should_229")
            /\ UNCHANGED misses
    /\ UNCHANGED <<cache, hits>>

\* lines 229-230: if key not in self.cache: return True
ShouldEvictMember(t) ==
    /\ threads[t].pc = "should_229"
    /\ Goto(t, IF ~HasKey(cache, threads[t].key) THEN "get_245" ELSE "should_232")
    /\ UNCHANGED <<cache, hits, misses>>

\* lines 232-236: value, frequency, timestamp = self.cache[key]; age > tau
ShouldEvictRead(t) ==
    /\ threads[t].pc = "should_232"
    /\ IF ~HasKey(cache, threads[t].key)
       THEN Raise(t, "KeyError")
       ELSE Goto(t, IF should_evict(cache, tau_0, threads[t].key,
                                    threads[t].current_time)
                    THEN "get_245" ELSE "get_249")
    /\ UNCHANGED <<cache, hits, misses>>

\* lines 245-247: del self.cache[key]; self.misses += 1; return None
GetDel(t) ==
    /\ threads[t].pc = "get_245"
    /\ IF HasKey(cache, threads[t].key)
       THEN /\ cache' = dict_del(cache, threads[t].key)
            /\ misses' = misses + 1
            /\ Return(t, None)
       ELSE /\ Raise(t, "KeyError")
            /\ UNCHANGED <<cache, misses>>
    /\ UNCHANGED hits

\* line 249: self.hits += 1
GetHit(t) ==
    /\ threads[t].pc = "get_249"
    /\ hits' = hits + 1
    /\ Goto(t, "get_250")
    /\ UNCHANGED <<cache, misses>>

\* line 250: return self.cache[key][0]
GetRead(t) ==
    /\ threads[t].pc = "get_250"
    /\ IF HasKey(cache, threads[t].key)
       THEN Return(t, Lookup(cache, threads[t].key).value)
       ELSE Raise(t, "KeyError")
    /\ UNCHANGED <<cache, hits, misses>>

\* the call is interrupted before its next statement (an exception raised
\* into the thread): the statements executed so far are not undone
Cancel(t) ==
    /\ ~Outside(threads[t])
    /\ Goto(t, "cancelled")
    /\ UNCHANGED <<cache, hits, misses>>

ThreadFrame == UNCHANGED <<capacity, tau_0, prev, last, bypassVars, probe, rt, twin>>

\* the steps of put
PutSteps(t) ==
    \/ PutCheck(t) \/ EvictEmpty(t) \/ EvictMin(t) \/ EvictDel(t) \/ PutInsert(t)

\* the steps of get
GetSteps(t) ==
    \/ GetMember(t) \/ ShouldEvictMember(t) \/ ShouldEvictRead(t)
    \/ GetDel(t) \/ GetHit(t) \/ GetRead(t)

(***************************************************************************)
(* SpecThreads: two threads sharing one cache.                             *)
(***************************************************************************)
ThreadIds == {1, 2}

\* key, value and frequency of the puts; the times of the calls
ThreadPuts == {<<"A", "v1", FromInt(5)>>, <<"B", "v2", FromInt(10)>>}
ThreadTimes == {0, 2}

ThreadsInit(ids, caps) ==
    /\ CacheInit(caps)
    /\ BypassIdle
    /\ probe = <<>>
    /\ rt = [op |-> "none"]
    /\ twin = [op |-> "none"]
    /\ threads = [t \in ids |-> IdleThread]

InitThreads == ThreadsInit(ThreadIds, 1..MaxCapacity)

CallPut(ids) ==
    /\ \E t \in ids, p \in ThreadPuts, current_time \in ThreadTimes :
           StartPut(t, p[1], p[2], p[3], current_time)
    /\ ThreadFrame

CallGet(ids) ==
    /\ \E t \in ids, p \in ThreadPuts, current_time \in ThreadTimes :
           StartGet(t, p[1], current_time)
    /\ ThreadFrame

StepPut(ids) == (\E t \in ids : PutSteps(t)) /\ ThreadFrame

StepGet(ids) == (\E t \in ids : GetSteps(t)) /\ ThreadFrame

NextThreads ==
    \/ CallPut(ThreadIds) \/ StepPut(ThreadIds)
    \/ CallGet(ThreadIds) \/ StepGet(ThreadIds)

SpecThreads == InitThreads /\ [][NextThreads]_vars

(***************************************************************************)
(* SpecCancel: one thread whose put can be interrupted between statements. *)
(***************************************************************************)
InitCancel == ThreadsInit({1}, 1..MaxCapacity)

CancelPut == (\E t \in {1} : Cancel(t)) /\ ThreadFrame

NextCancel == CallPut({1}) \/ StepPut({1}) \/ CancelPut

SpecCancel == InitCancel /\ [][NextCancel]_vars

(***************************************************************************)
(* Claims about threads and interruption.                                  *)
(***************************************************************************)
ThreadSet == {threads[t] : t \in DOMAIN threads}

\* C13: two threads calling put concurrently on a shared cache: the steps of
\* one put do not interleave with the other's, so in every reachable state the
\* number of entries is at most capacity.
C13_ConcurrentPutCapacity == Len(cache) <= capacity

\* C14: under any interleaving of get and put from two threads every get
\* completes returning a stored value or None; no get ends in an error by
\* deleting or reading a key another thread removed in between.
C14_GetNeverRaises ==
    \A th \in ThreadSet : th.op = "get" =>
        /\ th.pc # "raised"
        /\ th.pc = "returned" => th.ret \in {None} \cup {p[2] : p \in ThreadPuts}

\* C15: a put on a full cache interrupted between its steps leaves the cache
\* either as before the put or as after the completed put, never with an entry
\* evicted and the new entry not inserted.
C15_PutCancelAtomic ==
    \A th \in ThreadSet :
        (th.op = "put" /\ th.pc = "cancelled" /\ Len(th.before) >= capacity) =>
            \/ cache = th.before
            \/ cache = put_cache(th.before, capacity, th.key, th.value,
                                 th.frequency, th.current_time)

(***************************************************************************)
(* RAELOptimizedRuntime.  A hidden state is the sequence <<input, l1, l2,  *)
(* ...>> of the input and the layers computed on it so far; the embedding  *)
(* drawn at construction fixes the signature of every input, and the       *)
(* process fixes the hash of every input.  Wall-clock statistics           *)
(* (total_time, time_saved) are left out.                                  *)
(***************************************************************************)
MaxFwdLayers == 4     \* config.num_layers ranges over 0..MaxFwdLayers
MaxPasses    == 3     \* forward passes of one runtime

F_STRUKTUR == 144

Digit(d) == <<"0", "1", "2", "3", "4", "5", "6", "7", "8", "9">>[d + 1]

\* str(n) for an integer n, as the sequence of its characters
RECURSIVE PyStrNat(_)
PyStrNat(n) ==
    IF n < 10 THEN <<Digit(n)>> ELSE Append(PyStrNat(n \div 10), Digit(n % 10))

PyStr(n) == IF n < 0 THEN <<"-">> \o PyStrNat(-n) ELSE PyStrNat(n)

\* mutant: the index and the hash joined without separators
cache_key_unseparated(layer_idx, h) ==
    <<"l", "a", "y", "e", "r">> \o PyStr(layer_idx) \o PyStr(h)

\* cache_key = f"layer_{layer_idx}_{hash(input_ids.tobytes())}"
cache_key(layer_idx, h) ==
    <<"l", "a", "y", "e", "r", "_">> \o PyStr(layer_idx) \o <<"_">> \o PyStr(h)

\* layer_freq = F_STRUKTUR + (layer_idx / num_layers) * (F_QUELLE - F_STRUKTUR)
layer_freq(layer_idx, n) ==
    RAdd(FromInt(F_STRUKTUR),
         RMul(RDiv(FromInt(layer_idx), FromInt(n)), FromInt(F_QUELLE - F_STRUKTUR)))

\* layer norm, attention and FFN of one layer applied to x
layer(layer_idx, x) == Append(x, layer_idx)

\* mutant: a hit consumes the entry it returns
get_cache_consume(c, tau, key, current_time) ==
    IF ~HasKey(c, key)
    THEN [cache |-> c, hit |-> FALSE, ret |-> <<>>]
    ELSE IF should_evict(c, tau, key, current_time)
    THEN [cache |-> dict_del(c, key), hit |-> FALSE, ret |-> <<>>]
    ELSE [cache |-> dict_del(c, key), hit |-> TRUE, ret |-> Lookup(c, key).value]

\* AkashaCache.get as a function: the dict after the call, what it returns
get_cache(c, tau, key, current_time) ==
    IF ~HasKey(c, key)
    THEN [cache |-> c, hit |-> FALSE, ret |-> <<>>]
    ELSE IF should_evict(c, tau, key, current_time)
    THEN [cache |-> dict_del(c, key), hit |-> FALSE, ret |-> <<>>]
    ELSE [cache |-> c, hit |-> TRUE, ret |-> Lookup(c, key).value]

InList(x, list) == \E k \in 1..Len(list) : list[k] = x

\* one entry of the log of a pass: the layer, its lookup, its outcome, the
\* hidden state before and after it, and the call of put made for it
Event(layer_idx, lookup, outcome, x_in, x, written) ==
    [layer |-> layer_idx, lookup |-> lookup, outcome |-> outcome,
     x_in |-> x_in, x |-> x, put |-> written]

\* the arguments of self.cache.put(cache_key, x, layer_freq, current_time)
PutArgs(key, value, frequency) ==
    [key |-> key, value |-> value, frequency |-> frequency]

\* mutant: the cache is looked up before the bypass test
process_layer_lookup_first(st, layer_idx, skip_layers, h, current_time) ==
    LET key == cache_key(layer_idx, h)
        g   == get_cache(st.cache, tau_0, key, current_time)
        x1  == layer(layer_idx, st.x)
        w   == PutArgs(key, x1, layer_freq(layer_idx, num_layers))
    IN  IF g.hit
        THEN [st EXCEPT !.cache = g.cache, !.hits = @ + 1, !.x = g.ret,
                        !.log = Append(@, Event(layer_idx, "hit", "hit",
                                                st.x, g.ret, <<>>))]
        ELSE IF InList(layer_idx, skip_layers)
        THEN [st EXCEPT !.cache = g.cache, !.misses = @ + 1,
                        !.layers_bypassed = @ + 1,
                        !.log = Append(@, Event(layer_idx, "miss", "bypassed",
                                                st.x, st.x, <<>>))]
        ELSE [st EXCEPT !.cache = put_cache(g.cache, capacity, w.key, w.value,
                                            w.frequency, current_time),
                        !.misses = @ + 1, !.x = x1,
                        !.log = Append(@, Event(layer_idx, "miss", "executed",
                                                st.x, x1, <<w>>))]

\* mutant: the output of a layer is stored again after a cache hit
process_layer_put_on_hit(st, layer_idx, skip_layers, h, current_time) ==
    IF InList(layer_idx, skip_layers)
    THEN [st EXCEPT !.layers_bypassed = @ + 1,
                    !.log = Append(@, Event(layer_idx, "none", "bypassed",
                                            st.x, st.x, <<>>))]
    ELSE LET key == cache_key(layer_idx, h)
             g   == get_cache(st.cache, tau_0, key, current_time)
             x1  == layer(layer_idx, st.x)
             w   == PutArgs(key, IF g.hit THEN g.ret ELSE x1,
                            layer_freq(layer_idx, num_layers))
         IN  [st EXCEPT !.cache = put_cache(g.cache, capacity, w.key, w.value,
                                            w.frequency, current_time),
                        !.hits = IF g.hit THEN @ + 1 ELSE @,
                        !.misses = IF g.hit THEN @ ELSE @ + 1,
                        !.x = w.value,
                        !.log = Append(@, Event(layer_idx,
                                                IF g.hit THEN "hit" ELSE "miss",
                                                IF g.hit THEN "hit" ELSE "executed",
                                                st.x, w.value, <<w>>))]

\* mutant: a bypassed layer is not counted in stats["layers_bypassed"]
process_layer_bypass_uncounted(st, layer_idx, skip_layers, h, current_time) ==
    IF InList(layer_idx, skip_layers)
    THEN [st EXCEPT !.log = Append(@, Event(layer_idx, "none", "bypassed",
                                            st.x, st.x, <<>>))]
    ELSE LET key == cache_key(layer_idx, h)
             g   == get_cache(st.cache, tau_0, key, current_time)
             x1  == layer(layer_idx, st.x)
             w   == PutArgs(key, x1, layer_freq(layer_idx, num_layers))
         IN  IF g.hit
             THEN [st EXCEPT !.cache = g.cache, !.hits = @ + 1, !.x = g.ret,
                             !.log = Append(@, Event(layer_idx, "hit", "hit",
                                                     st.x, g.ret, <<>>))]
             ELSE [st EXCEPT !.cache = put_cache(g.cache, capacity, w.key, w.value,
                                                 w.frequency, current_time),
                             !.misses = @ + 1, !.x = x1,
                             !.log = Append(@, Event(layer_idx, "miss", "executed",
                                                     st.x, x1, <<w>>))]

\* one iteration of the layer loop of forward (lines 586-616)
process_layer(st, layer_idx, skip_layers, h, current_time) ==
    IF InList(layer_idx, skip_layers)
    THEN [st EXCEPT !.layers_bypassed = @ + 1,
                    !.log = Append(@, Event(layer_idx, "none", "bypassed",
                                            st.x, st.x, <<>>))]
    ELSE LET key == cache_key(layer_idx, h)
             g   == get_cache(st.cache, tau_0, key, current_time)
             x1  == layer(layer_idx, st.x)
             w   == PutArgs(key, x1, layer_freq(layer_idx, num_layers))
         IN  IF g.hit
             THEN [st EXCEPT !.cache = g.cache, !.hits = @ + 1, !.x = g.ret,
                             !.log = Append(@, Event(layer_idx, "hit", "hit",
                                                     st.x, g.ret, <<>>))]
             ELSE [st EXCEPT !.cache = put_cache(g.cache, capacity, w.key, w.value,
                                                 w.frequency, current_time),
                             !.misses = @ + 1, !.x = x1,
                             !.log = Append(@, Event(layer_idx, "miss", "executed",
                                                     st.x, x1, <<w>>))]

\* for layer_idx in range(self.config.num_layers), from layer_idx on
RECURSIVE run_layers(_, _, _, _, _)
run_layers(st, layer_idx, skip_layers, h, current_time) ==
    IF layer_idx >= num_layers
    THEN st
    ELSE run_layers(process_layer(st, layer_idx, skip_layers, h, current_time),
                    layer_idx + 1, skip_layers, h, current_time)

\* RAELOptimizedRuntime.forward
forward(input_ids, current_time) ==
    LET S      == rt.sig_of[input_ids]
        active == RLess(TRIGGER_THRESHOLD, S)
        skip_layers == IF active THEN skip_layers_of(num_layers, S) ELSE <<>>
        st0 == [cache |-> cache, hits |-> hits, misses |-> misses,
                x |-> <<input_ids>>, layers_bypassed |-> rt.layers_bypassed,
                log |-> <<>>]
        st  == run_layers(st0, 0, skip_layers, rt.hash_of[input_ids], current_time)
    IN  /\ rt.forward_calls < MaxPasses
        /\ bypass_active' = active
        /\ layers_skipped' = IF active THEN Len(skip_layers) ELSE layers_skipped
        /\ call' = IF active
                   THEN [op |-> "compute_skip_layers", signature_88 |-> S,
                         ret |-> skip_layers, checked |-> <<S>>]
                   ELSE [op |-> "check_bypass_condition", signature_88 |-> S,
                         ret |-> FALSE, checked |-> <<S>>]
        /\ cache' = st.cache
        /\ hits' = st.hits
        /\ misses' = st.misses
        /\ prev' = cache
        /\ last' = [op |-> "forward", current_time |-> current_time]
        /\ rt' = [rt EXCEPT
               !.op = "forward",
               !.forward_calls = @ + 1,
               !.layers_bypassed = st.layers_bypassed,
               !.signature_88 = S,
               !.before = rt.pass,
               !.pass = [input_ids |-> input_ids, current_time |-> current_time,
                         skip_layers |-> skip_layers, log |-> st.log,
                         size_before |-> Len(cache),
                         bypassed |-> st.layers_bypassed - rt.layers_bypassed,
                         lookups |-> (st.hits + st.misses) - (hits + misses),
                         ret |-> [logits |-> st.x, signature_88 |-> S,
                                  bypass_active |-> active,
                                  layers_skipped |-> Len(skip_layers),
                                  precision |-> adaptive_precision(rt.clarity),
                                  throughput_multiplier |->
                                      throughput_multiplier(rt.clarity)]]]
        /\ UNCHANGED <<capacity, tau_0, num_layers, probe, threads, twin>>

\* RAELOptimizedRuntime.get_full_stats, the entries that are modelled
get_full_stats ==
    [runtime |-> [forward_calls |-> rt.forward_calls,
                  layers_bypassed |-> rt.layers_bypassed],
     bypass  |-> [active |-> bypass_active, layers_skipped |-> layers_skipped,
                  signature_88 |-> rt.signature_88],
     cache   |-> [size |-> Len(cache), capacity |-> capacity,
                  hits |-> hits, misses |-> misses]]

(***************************************************************************)
(* SpecForward: runtimes of 0..MaxFwdLayers layers and cache capacities    *)
(* 0..MaxCapacity, run on two inputs under a monotonic clock.              *)
(***************************************************************************)
Inputs == {"x", "y"}

\* signatures below, above and far above the threshold 8/9
FwdSignatures == {<<4, 5>>, <<17, 18>>, <<1, 1>>}

\* values of hash(input_ids.tobytes())
Fingerprints == {-1, 11}

FwdTimes == {0, 1, 3}

\* RAELOptimizedRuntime.__init__: no configuration value is validated
RuntimeInit(layers, caps) ==
    /\ BypassInit(layers)
    /\ CacheInit(caps)
    /\ probe = <<>>
    /\ threads = <<>>
    /\ twin = [op |-> "none"]
    /\ rt \in {[op |-> "init", forward_calls |-> 0, layers_bypassed |-> 0,
                clarity |-> <<1, 2>>, signature_88 |-> FromInt(0),
                sig_of |-> s, hash_of |-> h, before |-> [log |-> <<>>],
                pass |-> [log |-> <<>>]] :
                  s \in [Inputs -> FwdSignatures], h \in [Inputs -> Fingerprints]}

InitForward == RuntimeInit(0..MaxFwdLayers, 0..MaxCapacity)

Forward ==
    \E input_ids \in Inputs, current_time \in {t \in FwdTimes : t >= Clock} :
        forward(input_ids, current_time)

NextForward == Forward

SpecForward == InitForward /\ [][NextForward]_vars

(***************************************************************************)
(* Claims about the runtime.                                               *)
(***************************************************************************)
PassDone == rt.op = "forward"

Log == rt.pass.log

\* the layers of the last pass that were bypassed
BypassedLayers == {Log[k].layer : k \in {k \in 1..Len(Log) : Log[k].outcome = "bypassed"}}

\* C16: a configuration with cache_capacity = 0 or num_layers < 1 is rejected
\* at construction, which ends in an error: no forward pass (with its gets and
\* puts) is ever performed on a runtime of such a configuration.
C16_RejectsInvalidConfig ==
    (capacity = 0 \/ num_layers < 1) => ~PassDone

\* C17: in every forward pass the cache is consulted before the bypass
\* decision: one lookup per layer index (hits + misses grow by num_layers), also
\* for the layers in skip_layers, and a layer is bypassed only after its lookup
\* missed.
C17_LookupBeforeBypass ==
    PassDone =>
        /\ rt.pass.lookups = num_layers
        /\ \A k \in 1..Len(Log) : Log[k].lookup # "none"
        /\ \A k \in 1..Len(Log) : Log[k].outcome = "bypassed" => Log[k].lookup = "miss"

\* C17 as the code has it: the bypass test comes first.  The pass visits the
\* layers 0..num_layers-1 in order; a layer in skip_layers is bypassed with no
\* lookup at all, every other layer gets exactly one lookup, so hits + misses
\* grow by num_layers minus the number of skipped layers.
C17_BypassBeforeLookup ==
    PassDone =>
        /\ Len(Log) = num_layers
        /\ \A k \in 1..Len(Log) : Log[k].layer = k - 1
        /\ \A k \in 1..Len(Log) :
               /\ Log[k].outcome = "bypassed" <=> InList(Log[k].layer, rt.pass.skip_layers)
               /\ Log[k].outcome = "bypassed" <=> Log[k].lookup = "none"
        /\ rt.pass.lookups = num_layers - Len(rt.pass.skip_layers)
        /\ rt.pass.lookups = Cardinality({k \in 1..Len(Log) : Log[k].lookup # "none"})

\* a pass over four layers that bypasses layer 1 and looks up the other three
C17_Witness ==
    /\ PassDone
    /\ num_layers = 4
    /\ rt.pass.skip_layers = <<1>>
    /\ BypassedLayers = {1}
    /\ rt.pass.lookups = 3

\* the layer indices of the default configuration and beyond, and hashes
\* whose digits could be mistaken for a part of the index
KeyLayers == 0..12
KeyHashes == {-11, -1, 0, 1, 11, 111}

\* C19: the cache keys of distinct layer indices are distinct whatever the
\* input fingerprints are, so a lookup for layer i never returns a value that
\* was stored by a layer j # i (the keys are compared once, for the runtime
\* as constructed): every hit of a pass returns a hidden state
\* whose last computed layer is the layer looked up, and every entry of the
\* cache sits under a key of the layer that computed it.
C19_KeysDistinctPerLayer ==
    /\ rt.op = "init" =>
           \A i, j \in KeyLayers : \A h1, h2 \in KeyHashes \cup Fingerprints :
               i # j => cache_key(i, h1) # cache_key(j, h2)
    /\ \A k \in 1..Len(cache) :
           \E h \in Fingerprints :
               cache[k].key = cache_key(cache[k].value[Len(cache[k].value)], h)
    /\ PassDone =>
           \A k \in 1..Len(Log) : Log[k].lookup = "hit" =>
               Log[k].x[Len(Log[k].x)] = Log[k].layer

\* a second pass whose inputs' hashes collide hits layer 2 with a state
\* computed by layer 2 for the other input
C19_Witness ==
    /\ PassDone
    /\ rt.hash_of["x"] = rt.hash_of["y"]
    /\ \E k \in 1..Len(Log) :
           /\ Log[k].lookup = "hit"
           /\ Log[k].layer = 2
           /\ Log[k].x[1] # rt.pass.input_ids
           /\ Log[k].x[Len(Log[k].x)] = 2

\* C20: the bypass decision is not carried across passes: after every pass
\* the state reported by get_full_stats (bypass.active, bypass.layers_skipped)
\* is that of this pass; after a pass whose signature does not exceed the
\* threshold, active is false and layers_skipped is 0.
C20_BypassStatePerPass ==
    PassDone =>
        /\ get_full_stats.bypass.active = rt.pass.ret.bypass_active
        /\ get_full_stats.bypass.layers_skipped = rt.pass.ret.layers_skipped
        /\ ~RLess(TRIGGER_THRESHOLD, rt.pass.ret.signature_88) =>
               /\ ~get_full_stats.bypass.active
               /\ get_full_stats.bypass.layers_skipped = 0

(***************************************************************************)
(* SpecTwin: two EinsteinRosenBypass controllers of the same num_layers.   *)
(* Each is checked on its own, so their histories differ; both are asked   *)
(* for the skip list of the same signature in one step.  The first         *)
(* controller is the one of SpecBypass, the second is the record twin.     *)
(***************************************************************************)
\* EinsteinRosenBypass.__init__
TwinInit ==
    twin = [op |-> "init", bypass_active |-> FALSE, layers_skipped |-> 0,
            signature_88 |-> FromInt(0), ret |-> <<>>]

\* EinsteinRosenBypass.check_bypass_condition on the controller tw
twin_check(tw, signature_88) ==
    [tw EXCEPT !.op = "check_bypass_condition",
               !.bypass_active = RLess(TRIGGER_THRESHOLD, signature_88),
               !.signature_88 = signature_88,
               !.ret = <<>>]

\* mutant: the skip list computed from the signature alone
twin_compute_stateless(tw, signature_88) ==
    LET skip_layers == IF RLess(TRIGGER_THRESHOLD, signature_88)
                       THEN skip_layers_of(num_layers, signature_88) ELSE <<>>
    IN  [tw EXCEPT !.op = "compute_skip_layers",
                   !.layers_skipped = Len(skip_layers),
                   !.signature_88 = signature_88,
                   !.ret = skip_layers]

\* EinsteinRosenBypass.compute_skip_layers on the controller tw
twin_compute(tw, signature_88) ==
    IF ~tw.bypass_active
    THEN [tw EXCEPT !.op = "compute_skip_layers",
                    !.signature_88 = signature_88,
                    !.ret = <<>>]
    ELSE LET skip_layers == skip_layers_of(num_layers, signature_88) IN
         [tw EXCEPT !.op = "compute_skip_layers",
                    !.layers_skipped = Len(skip_layers),
                    !.signature_88 = signature_88,
                    !.ret = skip_layers]

TwinSignatures == {<<4, 5>>, <<9, 10>>, <<19, 20>>, <<1, 1>>}

InitTwin ==
    /\ BypassInit(0..MaxLayers)
    /\ CacheIdle
    /\ probe = <<>>
    /\ threads = <<>>
    /\ rt = [op |-> "none"]
    /\ TwinInit

CheckFirst ==
    /\ \E signature_88 \in TwinSignatures : check_bypass_condition(signature_88)
    /\ UNCHANGED <<cacheVars, probe, threads, rt, twin>>

CheckTwin ==
    /\ \E signature_88 \in TwinSignatures : twin' = twin_check(twin, signature_88)
    /\ UNCHANGED <<cacheVars, bypassVars, probe, threads, rt>>

ComputeBoth ==
    /\ \E signature_88 \in TwinSignatures :
           /\ compute_skip_layers(signature_88)
           /\ twin' = twin_compute(twin, signature_88)
    /\ UNCHANGED <<cacheVars, probe, threads, rt>>

NextTwin == CheckFirst \/ CheckTwin \/ ComputeBoth

SpecTwin == InitTwin /\ [][NextTwin]_vars

\* both controllers have just answered compute_skip_layers for one signature
BothComputed ==
    /\ call.op = "compute_skip_layers"
    /\ twin.op = "compute_skip_layers"
    /\ call.signature_88 = twin.signature_88

\* C21: the controller is stateless per call: for a fixed num_layers two
\* controllers with different histories of check_bypass_condition and
\* compute_skip_layers calls return equal skip lists for equal S.
C21_StatelessPerCall == BothComputed => call.ret = twin.ret

\* C21 as the code has it: compute_skip_layers reads the flag that the last
\* check_bypass_condition stored.  The result is the empty list while the flag
\* is down, whatever S is, and the block 1..k of S while it is up; so two
\* controllers return equal lists for equal S when their flags agree.
C21_StatePerLastCheck ==
    BothComputed =>
        /\ call.ret = IF bypass_active
                      THEN py_range(1, 1 + SkipCount(num_layers, call.signature_88, <<8, 9>>))
                      ELSE <<>>
        /\ twin.ret = IF twin.bypass_active
                      THEN py_range(1, 1 + SkipCount(num_layers, twin.signature_88, <<8, 9>>))
                      ELSE <<>>
        /\ bypass_active = twin.bypass_active => call.ret = twin.ret

\* one controller open and one closed, asked for S = 1 with eight layers
C21_Witness ==
    /\ BothComputed
    /\ num_layers = 8
    /\ call.signature_88 = FromInt(1)
    /\ bypass_active
    /\ ~twin.bypass_active
    /\ call.ret = <<1, 2, 3, 4, 5>>
    /\ twin.ret = <<>>

(***************************************************************************)
(* KappaScaledAttention.compute_relevance_frequency.  A tensor is the      *)
(* sequence of its rows (batch and sequence positions flattened), a row a  *)
(* sequence of elements.  Elements are counted in units of 1e-5, so that   *)
(* energies are integers in units of 1e-10 and the epsilon of line 320 is  *)
(* one unit: the quotient energy / max_energy is exact.                    *)
(***************************************************************************)
Epsilon == 1     \* 1e-10, in units of 1e-10

RECURSIVE SumSquares(_)
SumSquares(row) ==
    IF row = <<>> THEN 0 ELSE row[1] * row[1] + SumSquares(Tail(row))

\* energy = np.sum(x ** 2, axis=-1)
energy_of(x) == [i \in 1..Len(x) |-> SumSquares(x[i])]

\* np.max(energy)
np_max(energy) ==
    CHOOSE m \in {energy[i] : i \in 1..Len(energy)} :
        \A i \in 1..Len(energy) : energy[i] <= m

\* mutant: the maximum taken as the divisor, without the epsilon
compute_relevance_frequency_noeps(x) ==
    LET energy == energy_of(x)
        max_energy == FromInt(np_max(energy))
    IN  [i \in 1..Len(x) |->
            IF max_energy[1] = 0 THEN ZeroDivisionError
            ELSE RMul(RDiv(FromInt(energy[i]), max_energy), FromInt(F_QUELLE))]

\* KappaScaledAttention.compute_relevance_frequency
compute_relevance_frequency(x) ==
    LET energy == energy_of(x)
        max_energy == FromInt(np_max(energy) + Epsilon)
    IN  [i \in 1..Len(x) |->
            IF max_energy[1] = 0 THEN ZeroDivisionError
            ELSE RMul(RDiv(FromInt(energy[i]), max_energy), FromInt(F_QUELLE))]

(***************************************************************************)
(* SpecRelevance: one tensor of 1..MaxRows rows of two elements is         *)
(* evaluated (the function keeps no state); probe holds the evaluation.    *)
(***************************************************************************)
MaxRows == 2     \* rows of a tensor

Elements == {-2, 0, 1, 3}

Rows == {<<a, b>> : a \in Elements, b \in Elements}

Tensors == UNION {[1..n -> Rows] : n \in 1..MaxRows}

InitRelevance == ProbeIdle /\ CacheIdle /\ BypassIdle

ComputeRelevanceFrequency ==
    /\ probe = <<>>
    /\ \E x \in Tensors :
           probe' = <<[x |-> x, energy |-> energy_of(x),
                       frequency |-> compute_relevance_frequency(x)]>>
    /\ UNCHANGED <<cacheVars, bypassVars, threads, rt, twin>>

NextRelevance == ComputeRelevanceFrequency

SpecRelevance == InitRelevance /\ [][NextRelevance]_vars

LookedUpExpired ==
    /\ HasKey(prev, last.key)
    /\ RLess(persistence_time(tau_0, Lookup(prev, last.key).frequency),
             FromInt(last.current_time - Lookup(prev, last.key).timestamp))

\* C23: get changes the dict only by removing the looked-up entry when that
\* entry is expired; a get that hits and a get of an absent key leave every
\* entry (value, frequency, created_at) unchanged, and no get changes an entry
\* other than the one looked up (a hit does not refresh the timestamp).
C23_GetFrame ==
    IsGet =>
        /\ LookedUpExpired => cache = SelectSeq(prev, LAMBDA e : e.key # last.key)
        /\ ~LookedUpExpired => cache = prev
        /\ last.ret # None => cache = prev
        /\ ~HasKey(prev, last.key) => cache = prev
        /\ \A i \in 1..Len(prev) :
               prev[i].key # last.key => \E j \in 1..Len(cache) : cache[j] = prev[i]
        /\ \A j \in 1..Len(cache) : \E i \in 1..Len(prev) : prev[i] = cache[j]

\* a hit at a later time than the entry's: the timestamp stays
C23_Witness ==
    /\ IsGet
    /\ last.ret # None
    /\ HasKey(cache, last.key)
    /\ Lookup(cache, last.key).timestamp < last.current_time
    /\ Len(cache) = 2

\* C24: every get increments exactly one counter by one, hits when it returns
\* a value and misses when it returns None (absent or expired); put changes
\* neither counter; so hits + misses counts the get calls and no counter ever
\* decreases.
C24_CountersStep ==
    /\ (last'.op = "get" /\ last'.ret # None) =>
           (hits' = hits + 1 /\ misses' = misses)
    /\ (last'.op = "get" /\ last'.ret = None) =>
           (hits' = hits /\ misses' = misses + 1)
    /\ last'.op = "put" => (hits' = hits /\ misses' = misses)
    /\ hits' >= hits
    /\ misses' >= misses

C24_Counters == [][C24_CountersStep]_vars

\* a hit and a miss on an expired entry have been counted
C24_Witness ==
    /\ IsGet
    /\ hits = 1
    /\ misses = 1
    /\ LookedUpExpired
    /\ last.ret = None

\* the last call was a put of a key the dict already held
RePut == IsPut /\ HasKey(prev, last.key)

\* C25: a put of a key that is already present refreshes that entry (value,
\* frequency and created_at replaced) and removes no other entry, also when the
\* dict is full: the set of keys is the same before and after the call.
C25_RePutKeepsKeys ==
    RePut =>
        /\ KeysOf(cache) = KeysOf(prev)
        /\ Lookup(cache, last.key)
               = Entry(last.key, last.value, last.frequency, last.current_time)

(***************************************************************************)
(* SpecAnyCapacity: the calls of Spec on caches of every capacity that     *)
(* AkashaCache.__init__ accepts, 0 included.                               *)
(***************************************************************************)
InitAnyCapacity == CacheInit(0..MaxCapacity) /\ BypassIdle /\ ProbeIdle

SpecAnyCapacity == InitAnyCapacity /\ [][Next]_vars

\* C26: a put removes no entry when the dict holds fewer than capacity entries
\* (in particular when it is empty), and removes exactly one previously present
\* entry when it inserts a new key into a full dict, so that the size still
\* equals capacity.
C26_PutRemoval ==
    IsPut =>
        /\ Len(prev) < capacity => Removed = {}
        /\ (Len(prev) = capacity /\ ~HasKey(prev, last.key)) =>
               /\ Cardinality(Removed) = 1
               /\ Len(cache) = capacity

(***************************************************************************)
(* SpecWrite: puts and gets under a monotonic clock; probe notes the last  *)
(* put.                                                                    *)
(***************************************************************************)
InitWrite == CacheInit(1..MaxCapacity) /\ BypassIdle /\ ProbeIdle

PutNoted ==
    /\ \E key \in KeysTTL, value \in ValuesTTL, frequency \in FreqsTTL,
          current_time \in {t \in TimesTTL : t >= Clock} :
           /\ put(key, value, frequency, current_time)
           /\ probe' = <<Entry(key, value, frequency, current_time)>>
    /\ UNCHANGED <<bypassVars, threads, rt, twin>>

NextWrite == PutNoted \/ GetTTL

SpecWrite == InitWrite /\ [][NextWrite]_vars

\* the last call was a get of the key of the last put, within its lifetime
ReadsLastWrite ==
    /\ IsGet
    /\ probe # <<>>
    /\ last.key = probe[1].key
    /\ RLeq(FromInt(last.current_time - probe[1].timestamp),
            persistence_time(tau_0, probe[1].frequency))

\* C29: read-your-write, for capacity >= 1 and a clock that does not run
\* backwards: after put(k, v, f, t) with no later put, get(k, now) returns v
\* for every now with now - t <= persistence_time(f); the entry just inserted
\* is never the one evicted by its own put.
C29_ReadYourWrite ==
    /\ IsPut =>
           /\ HasKey(cache, last.key)
           /\ Lookup(cache, last.key)
                  = Entry(last.key, last.value, last.frequency, last.current_time)
    /\ ReadsLastWrite => last.ret = probe[1].value

\* a get at the very end of the lifetime 1000 of an entry of frequency
\* F_QUELLE, put into a full dict
C29_Witness ==
    /\ ReadsLastWrite
    /\ probe[1].frequency = FromInt(F_QUELLE)
    /\ last.current_time - probe[1].timestamp = 1000
    /\ last.ret = probe[1].value
    /\ Len(cache) = capacity

\* the hash of the input of the last pass
PassHash == rt.hash_of[rt.pass.input_ids]

\* the positions of the log of the last pass with the given outcome
Outcomes(outcome) == {k \in 1..Len(Log) : Log[k].outcome = outcome}

\* C27: in one forward pass the layer indices 0..num_layers-1 are processed
\* once each in increasing order and each layer has exactly one outcome among
\* cache hit, bypassed and executed; put is called exactly for the executed
\* layers, with that layer's own key and after its computation (its value is
\* the computed output), never for a layer that hit the cache or was bypassed.
C27_OnePassPerLayer ==
    PassDone =>
        /\ Len(Log) = num_layers
        /\ \A k \in 1..Len(Log) :
               /\ Log[k].layer = k - 1
               /\ Log[k].outcome \in {"hit", "bypassed", "executed"}
               /\ Log[k].x_in = IF k = 1 THEN <<rt.pass.input_ids>> ELSE Log[k - 1].x
               /\ (Log[k].put # <<>>) <=> (Log[k].outcome = "executed")
               /\ Log[k].outcome = "executed" =>
                      /\ Log[k].lookup = "miss"
                      /\ Log[k].put[1].key = cache_key(k - 1, PassHash)
                      /\ Log[k].put[1].value = layer(k - 1, Log[k].x_in)
                      /\ Log[k].x = Log[k].put[1].value
               /\ (Log[k].outcome = "hit") <=> (Log[k].lookup = "hit")

\* one pass of four layers in which all three outcomes occur
C27_Witness ==
    /\ PassDone
    /\ num_layers = 4
    /\ Outcomes("hit") # {}
    /\ Outcomes("bypassed") # {}
    /\ Outcomes("executed") # {}

\* C28: a bypassed layer is the identity: the hidden state after a layer in
\* skip_layers equals the hidden state before it and the cache is not written
\* for it; stats["layers_bypassed"] grows in each pass by the number of layers
\* in that pass's skip_layers, which is the layers_skipped that forward returns.
C28_BypassIdentity ==
    PassDone =>
        /\ \A k \in 1..Len(Log) :
               InList(Log[k].layer, rt.pass.skip_layers) =>
                   /\ Log[k].outcome = "bypassed"
                   /\ Log[k].x = Log[k].x_in
                   /\ Log[k].put = <<>>
                   /\ Log[k].lookup = "none"
        /\ BypassedLayers = {rt.pass.skip_layers[j] : j \in 1..Len(rt.pass.skip_layers)}
        /\ rt.pass.bypassed = Len(rt.pass.skip_layers)
        /\ rt.pass.ret.layers_skipped = rt.pass.bypassed

\* the second pass of a runtime of four layers that bypasses a layer again
C28_Witness ==
    /\ PassDone
    /\ rt.forward_calls = 2
    /\ rt.pass.bypassed = 1
    /\ rt.layers_bypassed = 2
    /\ \E k \in 1..Len(Log) : Log[k].outcome = "bypassed" /\ Log[k].x = Log[k].x_in

(***************************************************************************)
(* Two passes in succession on the same input.                             *)
(***************************************************************************)
First == rt.before

Second == rt.pass

Repeated ==
    /\ PassDone
    /\ rt.forward_calls >= 2
    /\ First.input_ids = Second.input_ids

\* the positions of a log at which the layer was executed
Executed(log) == {k \in 1..Len(log) : log[k].outcome = "executed"}

\* no entry that the first pass wrote has expired when the second starts
WrittenAlive ==
    \A k \in Executed(First.log) :
        RLeq(FromInt(Second.current_time - First.current_time),
             persistence_time(tau_0, First.log[k].put[1].frequency))

\* no entry under a key of this input, written or hit by the first pass, has
\* expired when the second starts (prev is the dict between the two passes)
UsedAlive ==
    \A i \in 0..(num_layers - 1) :
        LET key == cache_key(i, PassHash)
        IN  (~InList(i, Second.skip_layers) /\ HasKey(prev, key)) =>
                ~should_evict(prev, tau_0, key, Second.current_time)

\* in the second pass no layer is executed (so no put occurs) and the final
\* hidden state is that of the first pass
Transparent ==
    /\ Executed(Second.log) = {}
    /\ \A k \in 1..Len(Second.log) : Second.log[k].put = <<>>
    /\ Second.ret.logits = First.ret.logits

\* C30 as stated: if forward is run twice on the same input, the capacity is
\* at least the number of executed layers and the second pass starts before
\* any entry written by the first has expired, then in the second pass every
\* non-bypassed layer is a cache hit and the final hidden state equals that of
\* the first pass.
C30_RepeatTransparent ==
    (Repeated /\ capacity >= Cardinality(Executed(First.log)) /\ WrittenAlive)
        => Transparent

\* C30, amended: the same conclusion when the first pass had room for every
\* layer it executed (entries before it + executed layers <= capacity, so it
\* evicted nothing) and no entry that it wrote or hit has expired when the
\* second pass starts.
C30_RepeatWithRoom ==
    (/\ Repeated
     /\ First.size_before + Cardinality(Executed(First.log)) <= capacity
     /\ UsedAlive)
        => Transparent

\* a later second pass over three layers that the first pass executed, all of
\* them hits
C30_Witness ==
    /\ Repeated
    /\ First.size_before + Cardinality(Executed(First.log)) <= capacity
    /\ UsedAlive
    /\ Cardinality(Executed(First.log)) >= 2
    /\ Second.current_time > First.current_time
    /\ Cardinality(Outcomes("hit")) >= 2
    /\ Transparent

=============================================================================
